---------------------------- MODULE Spec2Model ----------------------------
(***************************************************************************)
(* Model of Sources/CLinuxAffinity/ProcessorAffinity.c:                    *)
(*                                                                         *)
(*   int linux_sched_getaffinity() {                                       *)
(*       cpu_set_t mask;                                                   *)
(*       long nproc, i, count = 0;                                         *)
(*       if (sched_getaffinity(0, sizeof(cpu_set_t), &mask) == -1) {       *)
(*           return -1;                                                    *)
(*       } else {                                                          *)
(*           nproc = sysconf(_SC_NPROCESSORS_ONLN);                        *)
(*           for (i = 0; i < nproc; i++) {                                 *)
(*               if(CPU_ISSET(i, &mask))                                   *)
(*                   count += 1;                                           *)
(*           }                                                             *)
(*           return count;                                                 *)
(*       }                                                                 *)
(*   }                                                                     *)
(*                                                                         *)
(* The function is modelled statement by statement, called by several      *)
(* threads of one process.  The operating system is the environment: the   *)
(* set of online logical CPUs, the affinity mask the kernel reports for    *)
(* the process, and whether the two OS queries the function makes fail.    *)
(***************************************************************************)
EXTENDS Integers, Sequences, FiniteSets

\* Number of logical CPU ids of the modelled host (ids 0 .. NCpu-1).
NCpu == 3

\* The threads of the process that call the function.
Threads == {1, 2}

CpuIds == 0 .. (NCpu - 1)

\* Capacity of cpu_set_t in bits (1024 in glibc), scaled to the host: every
\* CPU id of the host fits (otherwise the kernel rejects the query).
CPU_SETSIZE == NCpu

VARIABLES
    \* ---- operating system (environment) ----
    online,              \* ids of the logical CPUs that are online
    affinity,            \* affinity mask the kernel reports for the process
    affinityQueryFails,  \* the host rejects sched_getaffinity (returns -1)
    sysconfFails,        \* the host's sysconf(_SC_NPROCESSORS_ONLN) returns -1
    \* ---- one activation of linux_sched_getaffinity per thread ----
    pc,                  \* "idle", "L28", "L31", "L32", "done"
    rc,                  \* value sched_getaffinity returned (line 28)
    mask,                \* cpu_set_t mask   (line 25)
    nproc,               \* long nproc       (line 26)
    i,                   \* long i           (line 26)
    count,               \* long count       (line 26)
    ret,                 \* value the call returned to its caller
    \* ---- history ----
    tested,              \* indices handed to CPU_ISSET in this call, in order
    nQuery,              \* sched_getaffinity calls issued in this call
    nSysconf,            \* sysconf calls issued in this call
    clean,               \* no external change since this call started
    stableRets,          \* the values (at most the last two) returned by the
                         \* calls that started and finished since the last
                         \* external change
    affinityChanged      \* the reported affinity mask has changed since start

env    == <<online, affinity, affinityQueryFails, sysconfFails>>
locals == <<pc, rc, mask, nproc, i, count, ret>>
vars   == <<online, affinity, affinityQueryFails, sysconfFails,
            pc, rc, mask, nproc, i, count, ret,
            tested, nQuery, nSysconf, clean, stableRets, affinityChanged>>

Max(a, b) == IF a >= b THEN a ELSE b

-----------------------------------------------------------------------------
(* The pieces of the function body.                                        *)

\* CPU_ISSET(cpu, &set) of <sched.h>: 0 for an index outside the set's
\* capacity, otherwise the bit.
CPU_ISSET(cpu, set) == cpu >= 0 /\ cpu < CPU_SETSIZE /\ cpu \in set

\* What sched_getaffinity(0, sizeof(cpu_set_t), &mask) stores in mask.
ReadMask(t) == affinity

\* What sysconf(_SC_NPROCESSORS_ONLN) returns: the number of online CPUs, or
\* -1 when the query fails.
sysconf == IF sysconfFails THEN -1 ELSE Cardinality(online)

\* line 28: the test "sched_getaffinity(...) == -1".
QueryIgnored(r) == FALSE
QueryFailed(r) == r = -1

\* line 26: "count = 0".
StaticCount(t) == count[t]
InitialCount(t) == 0

\* line 32: the loop condition "i < nproc".
LoopCondInclusive(t) == i[t] <= nproc[t]
LoopCond(t) == i[t] < nproc[t]

\* line 32: "i++".
IndexStuck(t) == i[t]
IndexStep(t) == i[t] + 1

\* lines 33-34: "if (CPU_ISSET(i, &mask)) count += 1".
CountAll(t) == count[t] + 1
CountStep(t) == IF CPU_ISSET(i[t], mask[t]) THEN count[t] + 1 ELSE count[t]

\* History: the value v returned by thread t is recorded when no external
\* change happened during the call.
Recorded(t, v) ==
    IF ~clean[t] THEN stableRets
    ELSE IF Len(stableRets) < 2 THEN Append(stableRets, v)
    ELSE <<stableRets[2], v>>

-----------------------------------------------------------------------------
Init ==
    /\ online \in (SUBSET CpuIds) \ {{}}
    /\ affinity \in (SUBSET online) \ {{}}
    /\ affinityQueryFails \in BOOLEAN
    /\ sysconfFails \in BOOLEAN
    /\ pc = [t \in Threads |-> "idle"]
    /\ rc = [t \in Threads |-> 0]
    /\ mask = [t \in Threads |-> {}]
    /\ nproc = [t \in Threads |-> 0]
    /\ i = [t \in Threads |-> 0]
    /\ count = [t \in Threads |-> 0]
    /\ ret = [t \in Threads |-> 0]
    /\ tested = [t \in Threads |-> << >>]
    /\ nQuery = [t \in Threads |-> 0]
    /\ nSysconf = [t \in Threads |-> 0]
    /\ clean = [t \in Threads |-> FALSE]
    /\ stableRets = << >>
    /\ affinityChanged = FALSE

\* Entry into linux_sched_getaffinity (lines 24-26).  mask, nproc and i are
\* uninitialised; the function writes each before it reads it, so they are
\* represented by fixed values.
Call(t) ==
    /\ pc[t] \in {"idle", "done"}
    /\ pc' = [pc EXCEPT ![t] = "L28"]
    /\ count' = [count EXCEPT ![t] = InitialCount(t)]
    /\ mask' = [mask EXCEPT ![t] = {}]
    /\ nproc' = [nproc EXCEPT ![t] = 0]
    /\ i' = [i EXCEPT ![t] = 0]
    /\ rc' = [rc EXCEPT ![t] = 0]
    /\ ret' = [ret EXCEPT ![t] = 0]
    /\ tested' = [tested EXCEPT ![t] = << >>]
    /\ nQuery' = [nQuery EXCEPT ![t] = 0]
    /\ nSysconf' = [nSysconf EXCEPT ![t] = 0]
    /\ clean' = [clean EXCEPT ![t] = TRUE]
    /\ UNCHANGED <<env, stableRets, affinityChanged>>

\* lines 28-29: the affinity query; on failure the function returns -1.
SchedGetaffinity(t) ==
    /\ pc[t] = "L28"
    /\ nQuery' = [nQuery EXCEPT ![t] = @ + 1]
    /\ LET r == IF affinityQueryFails THEN -1 ELSE 0 IN
       /\ rc' = [rc EXCEPT ![t] = r]
       /\ mask' = [mask EXCEPT ![t] = IF r = 0 THEN ReadMask(t) ELSE @]
       /\ IF QueryFailed(r)
          THEN /\ ret' = [ret EXCEPT ![t] = -1]
               /\ pc' = [pc EXCEPT ![t] = "done"]
               /\ stableRets' = Recorded(t, -1)
          ELSE /\ pc' = [pc EXCEPT ![t] = "L31"]
               /\ UNCHANGED <<ret, stableRets>>
    /\ UNCHANGED <<env, nproc, i, count, tested, nSysconf, clean,
                   affinityChanged>>

\* line 31 and the loop's initialisation "i = 0" of line 32.
Sysconf(t) ==
    /\ pc[t] = "L31"
    /\ nproc' = [nproc EXCEPT ![t] = sysconf]
    /\ nSysconf' = [nSysconf EXCEPT ![t] = @ + 1]
    /\ i' = [i EXCEPT ![t] = 0]
    /\ pc' = [pc EXCEPT ![t] = "L32"]
    /\ UNCHANGED <<env, rc, mask, count, ret, tested, nQuery, clean,
                   stableRets, affinityChanged>>

\* lines 32-35: one iteration of the loop.
LoopIteration(t) ==
    /\ pc[t] = "L32"
    /\ LoopCond(t)
    /\ tested' = [tested EXCEPT ![t] = Append(@, i[t])]
    /\ count' = [count EXCEPT ![t] = CountStep(t)]
    /\ i' = [i EXCEPT ![t] = IndexStep(t)]
    /\ UNCHANGED <<env, pc, rc, mask, nproc, ret, nQuery, nSysconf, clean,
                   stableRets, affinityChanged>>

\* line 36: the loop is over, "return count".
ReturnCount(t) ==
    /\ pc[t] = "L32"
    /\ ~LoopCond(t)
    /\ ret' = [ret EXCEPT ![t] = count[t]]
    /\ pc' = [pc EXCEPT ![t] = "done"]
    /\ stableRets' = Recorded(t, count[t])
    /\ UNCHANGED <<env, rc, mask, nproc, i, count, tested, nQuery, nSysconf,
                   clean, affinityChanged>>

\* The steps of one activation after its entry.
Run(t) ==
    \/ SchedGetaffinity(t)
    \/ Sysconf(t)
    \/ LoopIteration(t)
    \/ ReturnCount(t)

linux_sched_getaffinity(t) == Call(t) \/ Run(t)

-----------------------------------------------------------------------------
(* The environment: what other processes and the administrator do.         *)

\* An external sched_setaffinity / taskset / cpuset change: the process is
\* restricted to another non-empty set of online CPUs.
SetAffinity(m) ==
    /\ m # affinity
    /\ affinity' = m
    /\ affinityChanged' = TRUE
    /\ clean' = [t \in Threads |-> FALSE]
    /\ stableRets' = << >>
    /\ UNCHANGED <<online, affinityQueryFails, sysconfFails, locals,
                   tested, nQuery, nSysconf>>

\* CPU hotplug: CPU c goes offline (never the last one) or comes online.  The
\* kernel reports only online CPUs in the mask; a process left without any is
\* moved to the CPUs that remain.
CpuHotplug(c) ==
    /\ online' = IF c \in online THEN online \ {c} ELSE online \cup {c}
    /\ online' # {}
    /\ affinity' = IF affinity \cap online' # {} THEN affinity \cap online'
                                                 ELSE online'
    /\ affinityChanged' = (affinityChanged \/ affinity' # affinity)
    /\ clean' = [t \in Threads |-> FALSE]
    /\ stableRets' = << >>
    /\ UNCHANGED <<affinityQueryFails, sysconfFails, locals,
                   tested, nQuery, nSysconf>>

Environment ==
    \/ \E m \in (SUBSET online) \ {{}} : SetAffinity(m)
    \/ \E c \in CpuIds : CpuHotplug(c)

\* One thread calls the function, again and again, while the environment
\* changes.
MainThread == {1}

Next ==
    \/ \E t \in MainThread : linux_sched_getaffinity(t)
    \/ Environment

Spec == Init /\ [][Next]_vars

\* A thread that is inside the function is eventually scheduled, and the two
\* OS queries return.
FairSpec == Spec /\ \A t \in MainThread : WF_vars(Run(t))

\* All threads call the function concurrently.
ConcurrentNext ==
    \/ \E t \in Threads : linux_sched_getaffinity(t)
    \/ Environment

ConcurrentSpec == Init /\ [][ConcurrentNext]_vars

-----------------------------------------------------------------------------
(* Properties.                                                             *)

Returned(t) == pc[t] = "done"
Succeeded(t) == pc[t] = "done" /\ rc[t] = 0

\* The set bits of set s at the indices below n.
BitsBelow(s, n) == {j \in s : j < n}

\* C1: a call whose affinity query succeeds returns the total number of bits
\* set in the mask it read, the bits at indices not below the online CPU
\* count included.  (Stated for calls whose online-CPU query succeeded.)
C1_ReturnsTotalBits ==
    \A t \in Threads :
        (Succeeded(t) /\ nproc[t] >= 1) => ret[t] = Cardinality(mask[t])

\* C2 as claimed: a call whose affinity query succeeds returns r with
\* 0 <= r <= nproc, for every value nproc the online-CPU query returned.
C2_WithinOnlineCount ==
    \A t \in Threads :
        Succeeded(t) => (0 <= ret[t] /\ ret[t] <= nproc[t])

\* C2 amended: a call whose affinity query succeeds returns r with
\* 0 <= r <= max(nproc, 0); r <= nproc whenever the online-CPU query returned
\* a count nproc >= 0, and r = 0 when it returned -1.
C2_WithinMaxOnlineCountZero ==
    \A t \in Threads :
        Succeeded(t) => (0 <= ret[t] /\ ret[t] <= Max(nproc[t], 0))

\* A successful call whose online-CPU query returned -1: it returned 0.
C2_Witness ==
    \E t \in Threads : Succeeded(t) /\ nproc[t] = -1 /\ ret[t] = 0

\* C3: the call returns -1 if and only if its affinity query failed; the query
\* fails exactly when the host rejects it, a call goes on to the online-CPU
\* query and the loop only after a successful query, and a successful query
\* yields a value >= 0.
C3_SentinelIffQueryFailed ==
    \A t \in Threads :
        /\ pc[t] \in {"L31", "L32"} => (rc[t] = 0 /\ ~affinityQueryFails)
        /\ Returned(t) =>
              /\ (ret[t] = -1) <=> (rc[t] = -1)
              /\ (rc[t] = -1) <=> affinityQueryFails
              /\ rc[t] = 0 => ret[t] >= 0

\* A call whose affinity query failed has returned -1.
C3_Witness ==
    \E t \in Threads : Returned(t) /\ rc[t] = -1 /\ ret[t] = -1

\* C4: when the mask is exactly K of the online CPUs, whatever their indices,
\* a successful call returns K.  (Stated for calls during which nothing
\* changed externally and whose online-CPU query succeeded.)
C4_RestrictedToK ==
    \A t \in Threads : \A K \in 0 .. NCpu :
        ( /\ Succeeded(t) /\ clean[t]
          /\ nproc[t] = Cardinality(online)
          /\ mask[t] \subseteq online
          /\ Cardinality(mask[t]) = K ) => ret[t] = K

\* C5: when every online CPU is set in the mask, a successful call returns
\* the online CPU count.  (Stated for calls during which nothing changed
\* externally and whose online-CPU query succeeded.)
C5_AllOnlineSet ==
    \A t \in Threads :
        ( /\ Succeeded(t) /\ clean[t]
          /\ nproc[t] = Cardinality(online)
          /\ online \subseteq mask[t] ) => ret[t] = Cardinality(online)

\* C6: a step of a call, successful or failed, changes nothing of the
\* operating system's state (the affinity mask, the online CPUs, the outcome
\* of the queries); and the calls that start and finish with no external
\* change in between all return the same value.
C6_NoSideEffectIdempotent ==
    /\ [][ locals' # locals => env' = env ]_vars
    /\ [](Len(stableRets) = 2 => stableRets[1] = stableRets[2])

\* Two successive calls with no external change in between have returned the
\* same count, at least 1.
C6_Witness ==
    /\ Len(stableRets) = 2
    /\ stableRets[1] = stableRets[2]
    /\ stableRets[2] >= 1

\* The mask and the online CPU count a call reads are those in force when it
\* reads them: a call during which nothing changed externally holds the
\* current mask and the current result of the online-CPU query.
FreshRead ==
    \A t \in Threads :
        (clean[t] /\ pc[t] \in {"L31", "L32", "done"} /\ rc[t] = 0) =>
            /\ mask[t] = affinity
            /\ pc[t] # "L31" => nproc[t] = sysconf

\* C7: a call that starts after an external affinity change has completed
\* returns the count for the mask in force at that call (the number of CPUs
\* in it), not a count from an earlier call.  (Stated for calls during which
\* nothing changed externally and whose online-CPU query succeeded.)
C7_CountOfMaskInForce ==
    \A t \in Threads :
        ( /\ Succeeded(t) /\ clean[t]
          /\ affinityChanged
          /\ nproc[t] >= 1 ) => ret[t] = Cardinality(affinity)

\* C8: after a successful affinity query the loop tests the indices
\* 0 .. nproc-1 exactly once each, in ascending order; the running count is
\* the number of tested indices whose bit is set in the mask read; the call
\* returns the number of set bits at the indices below nproc, so that the
\* bits at indices >= nproc never contribute; and with nproc <= 0 the body
\* never runs and the result is 0.
C8_LoopCountsBitsBelowNproc ==
    \A t \in Threads :
        (rc[t] = 0 /\ pc[t] \in {"L32", "done"}) =>
            /\ tested[t] = [k \in 1 .. i[t] |-> k - 1]
            /\ i[t] <= Max(nproc[t], 0)
            /\ count[t] = Cardinality(BitsBelow(mask[t], i[t]))
            /\ Returned(t) =>
                  /\ i[t] = Max(nproc[t], 0)
                  /\ ret[t] = Cardinality(BitsBelow(mask[t], nproc[t]))
                  /\ nproc[t] <= 0 => (ret[t] = 0 /\ tested[t] = << >>)

\* A successful call that tested at least two indices and whose mask has a
\* bit set at an index >= nproc, which did not contribute to the result.
C8_Witness ==
    \E t \in Threads :
        /\ Succeeded(t)
        /\ nproc[t] >= 2
        /\ \E j \in mask[t] : j >= nproc[t]
        /\ ret[t] = Cardinality(mask[t]) - 1

\* No step of one thread's call changes another call's mask, loop index,
\* running count or result, and a call's result is a function of the mask and
\* of the online CPU count that this call read.
Isolation ==
    /\ [][ \A t \in Threads :
             (pc'[t] # pc[t] \/ i'[t] # i[t]) =>
                 \A u \in Threads \ {t} :
                     /\ pc'[u] = pc[u] /\ rc'[u] = rc[u]
                     /\ mask'[u] = mask[u] /\ nproc'[u] = nproc[u]
                     /\ i'[u] = i[u] /\ count'[u] = count[u]
                     /\ ret'[u] = ret[u] ]_vars
    /\ [](\A t \in Threads :
             Succeeded(t) =>
                 ret[t] = Cardinality(BitsBelow(mask[t], nproc[t])))

\* C9: concurrent calls share no mutable state, and two of them return
\* different values only when the affinity changed between their two
\* queries.  (The last part, stated for calls whose queries all succeeded:
\* different results imply that the affinity mask has changed at all.)
C9_DifferOnlyIfAffinityChanged ==
    \A a \in Threads : \A b \in Threads :
        ( /\ Succeeded(a) /\ Succeeded(b)
          /\ nproc[a] >= 1 /\ nproc[b] >= 1
          /\ ret[a] # ret[b] ) => affinityChanged

\* C10: every call eventually returns; it issues the affinity query exactly
\* once, returns without querying the online CPU count when that query
\* failed, and otherwise queries the count once and returns after exactly
\* max(nproc, 0) loop iterations.
C10_ReturnsAfterBoundedSteps ==
    /\ \A t \in Threads : (pc[t] \in {"L28", "L31", "L32"}) ~> Returned(t)
    /\ [](\A t \in Threads :
            /\ nQuery[t] <= 1 /\ nSysconf[t] <= 1
            /\ Len(tested[t]) <= Max(nproc[t], 0)
            /\ pc[t] \in {"L31", "L32", "done"} => nQuery[t] = 1
            /\ Returned(t) =>
                  /\ rc[t] = -1 => (nSysconf[t] = 0 /\ tested[t] = << >>)
                  /\ rc[t] = 0 =>
                        /\ nSysconf[t] = 1
                        /\ Len(tested[t]) = Max(nproc[t], 0))

\* A call has returned after one affinity query, one online-CPU query and
\* two or more loop iterations.
C10_Witness ==
    \E t \in Threads :
        /\ Succeeded(t)
        /\ nQuery[t] = 1 /\ nSysconf[t] = 1
        /\ Len(tested[t]) >= 2 /\ Len(tested[t]) = nproc[t]

=============================================================================
